---- MODULE Spec2Model ----
(***************************************************************************)
(* ExternalEditor (qutebrowser/misc/editor.py): one editor session with    *)
(* its temp file, the editor processes it starts and the callbacks the     *)
(* process wrapper delivers to it.                                         *)
(***************************************************************************)
EXTENDS Integers, Sequences, FiniteSets, TLC

VARIABLES
    _filename,      \* self._filename: None or the name of the file being edited
    _remove_file,   \* self._remove_file: None, PyTrue or PyFalse
    _proc,          \* self._proc: NoProc or the index in procs of the GUIProcess
    procs,          \* every GUIProcess the session created, in creation order
    fs,             \* the file system: a function from existing file names to contents
    ntemp,          \* number of names tempfile.NamedTemporaryFile has handed out
    emitted,        \* editing_finished emissions, in order: [proc, text]
    out,            \* what the last call or callback did: [op, raised, msgs]
    orig,           \* history: temp file name -> the text edit() was given for it
    edited,         \* history: files an editor process wrote or removed
    deleted,        \* history: files the session removed with os.remove
    calc,           \* the last line/column computation: [text, caret, line, column]
    sub             \* the last _sub_placeholder call: its arguments and its result

vars == <<_filename, _remove_file, _proc, procs, fs, ntemp, emitted, out,
          orig, edited, deleted, calc, sub>>

\* ---------------------------------------------------------------- bounds
MaxCaretLen == 3    \* longest text given to the line/column computation in SpecCaret
MaxProcs == 2       \* editor processes started on one session
MaxTemp == 1        \* temp files created by one session
MaxPieces == 2      \* pieces an argument template is put together from in SpecSub

\* ---------------------------------------------------------------- values
None == "None"
PyTrue == "True"
PyFalse == "False"
NoProc == 0

NormalExit == "NormalExit"
CrashExit == "CrashExit"

LF == "\n"
CR == "\r"
Unencodable == "U"      \* a character config.val.editor.encoding cannot encode
Chars == {"a", LF, CR, Unencodable}

CallerFiles == {"/path/to/existing"}
CallerText == <<"f">>
Undecodable == "X"      \* bytes that are no text in config.val.editor.encoding
EditorTexts == {<<"b">>, <<Undecodable>>}
ExitCodes == {0, 1}
\* The exit code finished carries after a crash: 0, as for a success, so that
\* the exit status alone tells the two apart
CrashExitCodes == {0}

RECURSIVE TextsUpTo(_)
TextsUpTo(n) ==
    IF n = 0 THEN {<<>>}
    ELSE LET shorter == TextsUpTo(n - 1)
         IN shorter \cup {Append(t, c) : t \in {s \in shorter : Len(s) = n - 1}, c \in Chars}

\* ---------------------------------------------------------------- str helpers
\* text[:caret_position]
Slice(text, caret) ==
    LET n == Len(text)
        stop == IF caret < 0 THEN (IF n + caret < 0 THEN 0 ELSE n + caret)
                ELSE (IF caret > n THEN n ELSE caret)
    IN SubSeq(text, 1, stop)

\* str.count(ch)
RECURSIVE count(_, _)
count(s, ch) ==
    IF s = <<>> THEN 0
    ELSE (IF Head(s) = ch THEN 1 ELSE 0) + count(Tail(s), ch)

\* str.rfind(ch): the 0-based index of the last ch, -1 when there is none
RECURSIVE rfind(_, _)
rfind(s, ch) ==
    IF s = <<>> THEN -1
    ELSE IF s[Len(s)] = ch THEN Len(s) - 1
    ELSE rfind(SubSeq(s, 1, Len(s) - 1), ch)

line_without_increment(text, caret_position) == count(Slice(text, caret_position), LF)

\* line = text[:caret_position].count('\n') + 1
line(text, caret_position) == count(Slice(text, caret_position), LF) + 1

\* column = caret_position - text[:caret_position].rfind('\n')
column(text, caret_position) == caret_position - rfind(Slice(text, caret_position), LF)

\* ---------------------------------------------------------------- placeholders
\* str.replace(old, new): every occurrence of old, found from the left and not
\* overlapping, becomes new
IsPrefix(old, s) == Len(old) <= Len(s) /\ SubSeq(s, 1, Len(old)) = old

RECURSIVE Replace(_, _, _)
Replace(s, old, new) ==
    IF s = <<>> THEN <<>>
    ELSE IF IsPrefix(old, s)
    THEN new \o Replace(SubSeq(s, Len(old) + 1, Len(s)), old, new)
    ELSE <<Head(s)>> \o Replace(Tail(s), old, new)

\* str(n) of an integer
Digit(d) == <<"0", "1", "2", "3", "4", "5", "6", "7", "8", "9">>[d + 1]
RECURSIVE StrNat(_)
StrNat(n) == IF n < 10 THEN <<Digit(n)>> ELSE StrNat(n \div 10) \o <<Digit(n % 10)>>
Str(n) == IF n < 0 THEN <<"-">> \o StrNat(0 - n) ELSE StrNat(n)

PhEmpty == <<"{", "}">>
PhFile == <<"{", "f", "i", "l", "e", "}">>
PhLine == <<"{", "l", "i", "n", "e", "}">>
PhLine0 == <<"{", "l", "i", "n", "e", "0", "}">>
PhColumn == <<"{", "c", "o", "l", "u", "m", "n", "}">>
PhColumn0 == <<"{", "c", "o", "l", "u", "m", "n", "0", "}">>

\* The six replacements of _sub_placeholder, in the order of lines 187-192
Placeholders == <<PhEmpty, PhFile, PhLine, PhLine0, PhColumn, PhColumn0>>
Values(filename, ln, col) ==
    <<filename, filename, Str(ln), Str(ln - 1), Str(col), Str(col - 1)>>

\* _sub_placeholder, with self._filename passed as filename
_sub_placeholder(possible_placeholder, filename, ln, col) ==
    Replace(Replace(Replace(Replace(Replace(Replace(possible_placeholder,
        PhEmpty, filename),
        PhFile, filename),
        PhLine, Str(ln)),
        PhLine0, Str(ln - 1)),
        PhColumn, Str(col)),
        PhColumn0, Str(col - 1))

\* ---------------------------------------------------------------- text I/O
\* TextIOWrapper.write with newline=None: '\n' becomes os.linesep ('\n' on POSIX)
RECURSIVE WriteTranslate(_)
WriteTranslate(text) ==
    IF text = <<>> THEN <<>>
    ELSE <<Head(text)>> \o WriteTranslate(Tail(text))

\* TextIOWrapper.read with newline=None: '\r\n' and a lone '\r' become '\n'
RECURSIVE ReadTranslate(_)
ReadTranslate(data) ==
    IF data = <<>> THEN <<>>
    ELSE IF Head(data) = CR
         THEN IF Len(data) >= 2 /\ data[2] = LF
              THEN <<LF>> \o ReadTranslate(SubSeq(data, 3, Len(data)))
              ELSE <<LF>> \o ReadTranslate(Tail(data))
         ELSE <<Head(data)>> \o ReadTranslate(Tail(data))

Encodable(text) == \A i \in 1..Len(text) : text[i] # Unencodable
Decodable(data) == \A i \in 1..Len(data) : data[i] # Undecodable

exists(name) == name \in DOMAIN fs

Put(f, name, data) == [n \in DOMAIN f \cup {name} |-> IF n = name THEN data ELSE f[n]]
Remove(f, name) == [n \in DOMAIN f \ {name} |-> f[n]]

TempName(n) == "qutebrowser-editor-" \o ToString(n)

\* What a call or callback did: the operation, the process whose signal it
\* handled (NoProc for a call), the exception it raised, the message.error texts
Out(op, p, raised, msgs) == [op |-> op, proc |-> p, raised |-> raised, msgs |-> msgs]

MsgCreate == "Failed to create initial file"
MsgRead == "Failed to read back edited file"
MsgDelete == "Failed to delete tempfile"

\* ---------------------------------------------------------------- process wrapper
\* config.val.editor.command[1:], the argument templates of the editor
EditorArgs == <<PhFile, <<"+">> \o PhLine \o <<":">> \o PhColumn0>>

\* A GUIProcess: the file, line and column substituted into its arguments (the
\* file name as one character of them), the arguments it was started with, the
\* public operation that started it, its state, its exit code, the signals it
\* has still to deliver, and how often a callback of it has run _cleanup.
NewProc(fname, ln, col, by) ==
    [file |-> fname, line |-> ln, column |-> col, by |-> by,
     args |-> [i \in 1..Len(EditorArgs) |->
                  _sub_placeholder(EditorArgs[i], <<fname>>, ln, col)],
     status |-> "running", exitcode |-> 0, pending |-> {}, cleanups |-> 0]

Procs == 1..Len(procs)

\* GUIProcess.exit_status(): QProcess.exitStatus(), NormalExit unless the process crashed
exit_status(p) == IF procs[p].status = "crashed" THEN CrashExit ELSE NormalExit

Done(p) == procs[p].status # "running" /\ procs[p].pending = {}

ProcErrorWhileRunning(p) ==
    /\ procs[p].status = "running"
    /\ procs[p].pending = {}
    /\ procs' = [procs EXCEPT ![p].pending = {"error"}]
    /\ UNCHANGED <<_filename, _remove_file, _proc, fs, ntemp, emitted, out,
                   orig, edited, deleted, calc, sub>>

\* The process could not be started: the error signal alone.
ProcFailedToStart(p) ==
    /\ procs[p].status = "running"
    /\ procs' = [procs EXCEPT ![p].status = "failed", ![p].pending = {"error"}]
    /\ UNCHANGED <<_filename, _remove_file, _proc, fs, ntemp, emitted, out,
                   orig, edited, deleted, calc, sub>>

\* The process crashed: the error signal and finished(exitcode, CrashExit).
ProcCrashed(p, exitcode) ==
    /\ procs[p].status = "running"
    /\ procs' = [procs EXCEPT ![p].status = "crashed", ![p].exitcode = exitcode,
                              ![p].pending = {"error", "finished"}]
    /\ UNCHANGED <<_filename, _remove_file, _proc, fs, ntemp, emitted, out,
                   orig, edited, deleted, calc, sub>>

\* The process exited: finished(exitcode, NormalExit).
ProcExited(p, exitcode) ==
    /\ procs[p].status = "running"
    /\ procs' = [procs EXCEPT ![p].status = "exited", ![p].exitcode = exitcode,
                              ![p].pending = {"finished"}]
    /\ UNCHANGED <<_filename, _remove_file, _proc, fs, ntemp, emitted, out,
                   orig, edited, deleted, calc, sub>>

\* The running editor saves the file it was started on.
EditorWrites(p, data) ==
    /\ procs[p].status = "running"
    /\ ~(exists(procs[p].file) /\ fs[procs[p].file] = data)
    /\ fs' = Put(fs, procs[p].file, data)
    /\ edited' = edited \cup {procs[p].file}
    /\ UNCHANGED <<_filename, _remove_file, _proc, procs, ntemp, emitted, out,
                   orig, deleted, calc, sub>>

\* The running editor removes the file it was started on.
EditorRemoves(p) ==
    /\ procs[p].status = "running"
    /\ exists(procs[p].file)
    /\ fs' = Remove(fs, procs[p].file)
    /\ edited' = edited \cup {procs[p].file}
    /\ UNCHANGED <<_filename, _remove_file, _proc, procs, ntemp, emitted, out,
                   orig, deleted, calc, sub>>

\* ---------------------------------------------------------------- ExternalEditor
\* __init__
InitEditor ==
    /\ _filename = None
    /\ _proc = NoProc
    /\ _remove_file = None
    /\ procs = <<>>
    /\ fs = [f \in CallerFiles |-> CallerText]
    /\ ntemp = 0
    /\ emitted = <<>>
    /\ out = Out("__init__", NoProc, "none", <<>>)
    /\ orig = <<>>
    /\ edited = {}
    /\ deleted = {}
    /\ calc = [text |-> <<>>, caret |-> 0, line |-> 1, column |-> 1]

SubCall(template, filename, ln, col) ==
    [template |-> template, filename |-> filename, line |-> ln, column |-> col,
     result |-> <<>>, done |-> FALSE]

Init ==
    /\ InitEditor
    /\ sub = SubCall(<<>>, <<>>, 1, 1)

\* The result of one _cleanup call in the current state: the exception it
\* raises, the file system and the removed files it leaves, what it reports.
CleanupResult(raised, newfs, removed, msgs) ==
    [raised |-> raised, fs |-> newfs, deleted |-> removed, msgs |-> msgs]

_cleanup_not_catching ==
    IF _remove_file = None THEN CleanupResult("AssertionError", fs, deleted, <<>>)
    ELSE IF _filename = None \/ _remove_file # PyTrue
    THEN CleanupResult("none", fs, deleted, <<>>)
    ELSE IF _proc = NoProc
    THEN CleanupResult("AttributeError", fs, deleted, <<>>)
    ELSE IF exit_status(_proc) # CrashExit
    THEN IF exists(_filename)
         THEN CleanupResult("none", Remove(fs, _filename), deleted \cup {_filename}, <<>>)
         ELSE CleanupResult("FileNotFoundError", fs, deleted, <<>>)
    ELSE CleanupResult("none", fs, deleted, <<>>)

_cleanup_ignoring_crash ==
    IF _remove_file = None THEN CleanupResult("AssertionError", fs, deleted, <<>>)
    ELSE IF _filename = None \/ _remove_file # PyTrue
    THEN CleanupResult("none", fs, deleted, <<>>)
    ELSE IF exists(_filename)
    THEN CleanupResult("none", Remove(fs, _filename), deleted \cup {_filename}, <<>>)
    ELSE CleanupResult("none", fs, deleted, <<MsgDelete>>)

_cleanup ==
    IF _remove_file = None THEN CleanupResult("AssertionError", fs, deleted, <<>>)
    ELSE IF _filename = None \/ _remove_file # PyTrue
    THEN CleanupResult("none", fs, deleted, <<>>)
    ELSE IF _proc = NoProc
    THEN CleanupResult("AttributeError", fs, deleted, <<>>)
    ELSE IF exit_status(_proc) # CrashExit
    THEN IF exists(_filename)
         THEN CleanupResult("none", Remove(fs, _filename), deleted \cup {_filename}, <<>>)
         ELSE CleanupResult("none", fs, deleted, <<MsgDelete>>)
    ELSE CleanupResult("none", fs, deleted, <<>>)

editing_finished_emit_twice(p, text) ==
    emitted \o <<[proc |-> p, text |-> text], [proc |-> p, text |-> text]>>

\* self.editing_finished.emit(text), from the callback of process p
editing_finished_emit(p, text) == Append(emitted, [proc |-> p, text |-> text])

returns_before_try_never(exitstatus) == FALSE

\* Lines 74-77 of on_proc_closed: no read-back and no _cleanup after a crash
returns_before_try(exitstatus) == exitstatus # NormalExit

\* The finished signal of process p, with the exit code and status it carries.
\* f.read() raises UnicodeDecodeError, which is no OSError, on bytes that are no
\* text; the finally block runs _cleanup on every way out of the try block.
on_proc_closed(p) ==
    /\ "finished" \in procs[p].pending
    /\ LET exitcode == procs[p].exitcode
           exitstatus == IF procs[p].status = "crashed" THEN CrashExit ELSE NormalExit
           c == _cleanup
           opened == _filename # None /\ exists(_filename)
           readable == opened /\ Decodable(fs[_filename])
           read_raised == IF exitcode # 0 THEN "none"
                          ELSE IF _filename = None THEN "TypeError"
                          ELSE IF opened /\ ~readable THEN "UnicodeDecodeError"
                          ELSE "none"
       IN IF returns_before_try(exitstatus)
          THEN /\ procs' = [procs EXCEPT ![p].pending = @ \ {"finished"}]
               /\ out' = Out("on_proc_closed", p, "none", <<>>)
               /\ UNCHANGED <<fs, emitted, deleted>>
          ELSE /\ procs' = [procs EXCEPT ![p].pending = @ \ {"finished"},
                                         ![p].cleanups = @ + 1]
               /\ emitted' = IF exitcode = 0 /\ readable
                             THEN editing_finished_emit(p, ReadTranslate(fs[_filename]))
                             ELSE emitted
               /\ fs' = c.fs
               /\ deleted' = c.deleted
               /\ out' = Out("on_proc_closed", p,
                             IF c.raised # "none" THEN c.raised ELSE read_raised,
                             (IF exitcode = 0 /\ _filename # None /\ ~opened
                              THEN <<MsgRead>> ELSE <<>>) \o c.msgs)
    /\ UNCHANGED <<_filename, _remove_file, _proc, ntemp, orig, edited, calc, sub>>

\* The error signal of process p.
on_proc_error(p) ==
    /\ "error" \in procs[p].pending
    /\ LET c == _cleanup
       IN /\ procs' = [procs EXCEPT ![p].pending = @ \ {"error"},
                                    ![p].cleanups = @ + 1]
          /\ fs' = c.fs
          /\ deleted' = c.deleted
          /\ out' = Out("on_proc_error", p, c.raised, c.msgs)
    /\ UNCHANGED <<_filename, _remove_file, _proc, ntemp, emitted, orig, edited, calc, sub>>

\* Creates the GUIProcess, connects its signals and starts it on self._filename
\* (the value the caller has just assigned).
_start_editor(ln, col, by) ==
    /\ procs' = Append(procs, NewProc(_filename', ln, col, by))
    /\ _proc' = Len(procs) + 1

\* What creating, writing and closing the temp file can do: the outcome, and
\* how many characters of the text had reached the file when it failed
IO(outcome, written) == [outcome |-> outcome, written |-> written]

\* The text as fobj.write hands it to the file; an unencodable text raises in
\* the encoder before any of it is written
Written(text) == IF Encodable(text) THEN WriteTranslate(text) ELSE <<>>

IOOutcomes(text) ==
    {IO("ok", 0), IO("create_fails", 0)}
        \cup {IO("close_fails", k) : k \in 0..Len(Written(text))}
        \cup {IO("write_fails", k) : k \in 0..(Len(Written(text)) - 1)}

\* Lines 108-150 of edit: the temp file, then line, column and the editor
edit_body(text, caret_position, io) ==
    IF io.outcome = "create_fails"
    THEN \* NamedTemporaryFile raises OSError
         /\ out' = Out("edit", NoProc, "none", <<MsgCreate>>)
         /\ UNCHANGED <<_filename, _remove_file, _proc, procs, fs, ntemp, emitted,
                        orig, edited, deleted, calc, sub>>
    ELSE /\ ntemp < MaxTemp
         /\ ntemp' = ntemp + 1
         /\ LET name == TempName(ntemp + 1)
                partial == SubSeq(Written(text), 1, io.written)
            IN IF text # <<>> /\ ~Encodable(text)
               THEN \* fobj.write raises UnicodeEncodeError, which is no OSError,
                    \* unless closing the file then raises OSError in its place
                    /\ fs' = Put(fs, name, <<>>)
                    /\ out' = IF io.outcome = "close_fails"
                              THEN Out("edit", NoProc, "none", <<MsgCreate>>)
                              ELSE Out("edit", NoProc, "UnicodeEncodeError", <<>>)
                    /\ UNCHANGED <<_filename, _remove_file, _proc, procs, orig>>
               ELSE IF io.outcome = "write_fails"
               THEN \* fobj.write raises OSError
                    /\ fs' = Put(fs, name, partial)
                    /\ out' = Out("edit", NoProc, "none", <<MsgCreate>>)
                    /\ UNCHANGED <<_filename, _remove_file, _proc, procs, orig>>
               ELSE IF io.outcome = "close_fails"
               THEN \* leaving the with block raises OSError, after line 119
                    /\ fs' = Put(fs, name, partial)
                    /\ _filename' = name
                    /\ out' = Out("edit", NoProc, "none", <<MsgCreate>>)
                    /\ UNCHANGED <<_remove_file, _proc, procs, orig>>
               ELSE /\ Len(procs) < MaxProcs
                    /\ fs' = Put(fs, name, WriteTranslate(text))
                    /\ orig' = Put(orig, name, text)
                    /\ _filename' = name
                    /\ _remove_file' = PyTrue
                    /\ _start_editor(line(text, caret_position),
                                     column(text, caret_position), "edit")
                    /\ out' = Out("edit", NoProc, "none", <<>>)
         /\ UNCHANGED <<emitted, edited, deleted, calc, sub>>

edit_unguarded(text, caret_position, io) == edit_body(text, caret_position, io)

edit(text, caret_position, io) ==
    IF _filename # None
    THEN \* raise ValueError("Already editing a file!")
         /\ out' = Out("edit", NoProc, "ValueError", <<>>)
         /\ UNCHANGED <<_filename, _remove_file, _proc, procs, fs, ntemp, emitted,
                        orig, edited, deleted, calc, sub>>
    ELSE edit_body(text, caret_position, io)

edit_file_not_owning(filename) ==
    /\ Len(procs) < MaxProcs
    /\ _filename' = filename
    /\ _start_editor(1, 1, "edit_file")
    /\ out' = Out("edit_file", NoProc, "none", <<>>)
    /\ UNCHANGED <<_remove_file, fs, ntemp, emitted, orig, edited, deleted, calc, sub>>

edit_file_removing(filename) ==
    /\ Len(procs) < MaxProcs
    /\ _filename' = filename
    /\ _remove_file' = PyTrue
    /\ _start_editor(1, 1, "edit_file")
    /\ out' = Out("edit_file", NoProc, "none", <<>>)
    /\ UNCHANGED <<fs, ntemp, emitted, orig, edited, deleted, calc, sub>>

edit_file(filename) ==
    /\ Len(procs) < MaxProcs
    /\ _filename' = filename
    /\ _remove_file' = PyFalse
    /\ _start_editor(1, 1, "edit_file")
    /\ out' = Out("edit_file", NoProc, "none", <<>>)
    /\ UNCHANGED <<fs, ntemp, emitted, orig, edited, deleted, calc, sub>>

\* ---------------------------------------------------------------- specification
\* The texts edit is called with: empty, with a newline, with a carriage
\* return, and with a character the configured encoding lacks
Texts == {<<>>, <<"a", LF>>, <<CR>>, <<Unencodable>>}
CaretPositions(text) == {0, Len(text)}
\* A call that line 106 rejects reads none of its arguments: one text, one
\* caret position and one outcome of the file operations stand for all
CallTexts == IF _filename = None THEN Texts ELSE {<<"a", LF>>}
CallCarets(text) == IF _filename = None THEN CaretPositions(text) ELSE {0}
CallOutcomes(text) == IF _filename = None THEN IOOutcomes(text) ELSE {IO("ok", 0)}

Next ==
    \/ \E text \in CallTexts : \E caret_position \in CallCarets(text) :
         \E io \in CallOutcomes(text) : edit(text, caret_position, io)
    \/ \E filename \in CallerFiles : edit_file(filename)
    \/ \E p \in Procs : on_proc_closed(p)
    \/ \E p \in Procs : on_proc_error(p)
    \/ \E p \in Procs : ProcFailedToStart(p)
    \/ \E p \in Procs : \E exitcode \in CrashExitCodes : ProcCrashed(p, exitcode)
    \/ \E p \in Procs : \E exitcode \in ExitCodes : ProcExited(p, exitcode)
    \/ \E p \in Procs : \E data \in EditorTexts : EditorWrites(p, data)
    \/ \E p \in Procs : EditorRemoves(p)

Spec == Init /\ [][Next]_vars

\* The line and column computation of edit alone, on longer texts and on
\* caret positions outside the text as well.
Locate(text, caret_position) ==
    /\ calc' = [text |-> text, caret |-> caret_position,
                line |-> line(text, caret_position),
                column |-> column(text, caret_position)]
    /\ UNCHANGED <<_filename, _remove_file, _proc, procs, fs, ntemp, emitted, out,
                   orig, edited, deleted, sub>>

NextCaret ==
    \E text \in TextsUpTo(MaxCaretLen) :
        \E caret_position \in (-1)..(Len(text) + 1) : Locate(text, caret_position)

SpecCaret == Init /\ [][NextCaret]_vars

\* The session with _cleanup invoked once more, by hand, after a callback has
\* invoked it
cleanup_again ==
    /\ \E p \in Procs : procs[p].cleanups >= 1
    /\ LET c == _cleanup
       IN /\ fs' = c.fs
          /\ deleted' = c.deleted
          /\ out' = Out("_cleanup", NoProc, c.raised, c.msgs)
    /\ UNCHANGED <<_filename, _remove_file, _proc, procs, ntemp, emitted,
                   orig, edited, calc, sub>>

NextCleanup ==
    \/ Next
    \/ cleanup_again

SpecCleanup == Init /\ [][NextCleanup]_vars

\* _sub_placeholder alone: templates put together from placeholders and other
\* text, file names with and without braces, one- and two-digit lines
TemplatePieces ==
    {PhEmpty, PhFile, PhLine, PhLine0, PhColumn, PhColumn0,
     <<"x">>, <<"{">>, <<"}">>, <<"{", "f">>, <<"e", "}">>, <<"{", "c", "o", "l", "u", "m", "n">>}

RECURSIVE TemplatesUpTo(_)
TemplatesUpTo(n) ==
    IF n = 0 THEN {<<>>}
    ELSE TemplatesUpTo(n - 1)
             \cup {t \o piece : t \in TemplatesUpTo(n - 1), piece \in TemplatePieces}

SubFilenames == {<<"/", "x">>, PhLine, <<"i", "l">>}
SubLines == {1, 10}
SubColumns == {1, 3}

\* The arguments of one _sub_placeholder call
InitSub ==
    /\ InitEditor
    /\ sub \in {SubCall(template, filename, ln, col) :
                    template \in TemplatesUpTo(MaxPieces), filename \in SubFilenames,
                    ln \in SubLines, col \in SubColumns}

Substitute ==
    /\ ~sub.done
    /\ sub' = [sub EXCEPT !.result = _sub_placeholder(sub.template, sub.filename,
                                                       sub.line, sub.column),
                          !.done = TRUE]
    /\ UNCHANGED <<_filename, _remove_file, _proc, procs, fs, ntemp, emitted, out,
                   orig, edited, deleted, calc>>

NextSub == Substitute

SpecSub == InitSub /\ [][NextSub]_vars

\* ---------------------------------------------------------------- claims
Running == {p \in Procs : procs[p].status = "running"}
EmissionsOf(p) == {i \in 1..Len(emitted) : emitted[i].proc = p}
SessionState == <<_filename, _remove_file, _proc>>

\* A step that is a call of edit
EditStep ==
    \E text \in CallTexts : \E caret_position \in CallCarets(text) :
        \E io \in CallOutcomes(text) : edit(text, caret_position, io)

\* C1: at most one editor process started by the session is running at any
\* time, because a call of edit or edit_file made while _filename is set fails.
AtMostOneEditorRunning == Cardinality(Running) <= 1

\* C2: a call of edit made while _filename is set raises ValueError, creates no
\* temp file, starts no process and leaves _filename, _remove_file and _proc
\* as they were.
EditWhileEditingRaises ==
    [][(_filename # None /\ EditStep)
          => /\ out'.op = "edit"
             /\ out'.raised = "ValueError"
             /\ out'.msgs = <<>>
             /\ UNCHANGED <<SessionState, procs, fs, ntemp>>]_vars

EditRejectedWhileRunning ==
    /\ out.op = "edit"
    /\ out.raised = "ValueError"
    /\ _proc # NoProc
    /\ procs[_proc].status = "running"

\* C3: once every process the session started has terminated and delivered its
\* callbacks, a call of edit is accepted: it does not raise ValueError.
EditAcceptedAfterCycleEnded ==
    (procs # <<>> /\ (\A p \in Procs : Done(p)) /\ out.op = "edit")
        => out.raised # "ValueError"

\* C4: a process started by edit(T) whose temp file no editor touched and
\* whose finished callback emitted editing_finished emitted exactly T.
RoundTripEmitsOriginalText ==
    \A i \in 1..Len(emitted) :
        LET p == emitted[i].proc
        IN (procs[p].by = "edit" /\ procs[p].file \notin edited)
               => emitted[i].text = orig[procs[p].file]

\* C5: when the process of an edit(text) cycle crashed and both its callbacks
\* have run, the session has not removed the temp file (it is on disk unless
\* the editor itself removed it) and that process emitted no editing_finished.
CrashKeepsTempFile ==
    \A p \in Procs :
        (procs[p].by = "edit" /\ procs[p].status = "crashed" /\ Done(p))
            => /\ procs[p].file \notin deleted
               /\ (procs[p].file \notin edited => exists(procs[p].file))
               /\ EmissionsOf(p) = {}

CrashedEditCycleDone ==
    \E p \in Procs :
        /\ procs[p].by = "edit"
        /\ procs[p].status = "crashed"
        /\ procs[p].exitcode = 0
        /\ Done(p)
        /\ exists(procs[p].file)
        /\ _remove_file = PyTrue

\* C6: when the process of an edit(text) cycle exited normally with a
\* non-zero exit code and its callback has run, the temp file is gone and
\* that process emitted no editing_finished.
NonZeroExitDeletesTempFile ==
    \A p \in Procs :
        (procs[p].by = "edit" /\ procs[p].status = "exited"
            /\ procs[p].exitcode # 0 /\ Done(p))
            => /\ ~exists(procs[p].file)
               /\ EmissionsOf(p) = {}

\* C7: the session never removes a file that was passed to edit_file: what it
\* removes is a temp file it created itself, so a caller's file that no editor
\* removed is still on disk.
EditFileNeverDeleted ==
    /\ \A p \in Procs : procs[p].by = "edit_file" => procs[p].file \notin deleted
    /\ deleted \subseteq {TempName(n) : n \in 1..ntemp}
    /\ \A f \in CallerFiles : f \notin edited => exists(f)

EditFileCycleDone ==
    \E p \in Procs :
        /\ procs[p].by = "edit_file"
        /\ procs[p].status = "exited"
        /\ Done(p)
        /\ procs[p].cleanups = 1
        /\ _filename = procs[p].file
        /\ exists(procs[p].file)

\* C8: a call of edit that fails to create or write its temp file reports the
\* error, starts no process, leaves no temp file on disk and leaves _filename
\* unset.
FailedEditLeavesNothing ==
    [][(_filename = None /\ EditStep
            /\ (out'.msgs # <<>> \/ out'.raised # "none"))
          => /\ out'.raised = "none"
             /\ out'.msgs = <<MsgCreate>>
             /\ procs' = procs
             /\ fs' = fs
             /\ _filename' = None]_vars

\* C9: no process makes the session emit editing_finished more than once.
EmittedAtMostOncePerProcess ==
    \A p \in Procs : Cardinality(EmissionsOf(p)) <= 1

TwoProcessesEmitted ==
    /\ Len(procs) >= 2
    /\ \A p \in Procs : Done(p) /\ Cardinality(EmissionsOf(p)) = 1
    /\ \E p \in Procs : procs[p].by = "edit"

\* C10: for a caret position within the text, line and column are at least 1,
\* line is 1 plus the number of newlines before the caret, and column is the
\* distance of the caret from the last newline before it (from index -1 when
\* there is none).
NewlinesBefore(text, caret) == {i \in 1..caret : text[i] = LF}
LastNewlineIndex(text, caret) ==
    IF NewlinesBefore(text, caret) = {} THEN -1
    ELSE (CHOOSE i \in NewlinesBefore(text, caret) :
              \A j \in NewlinesBefore(text, caret) : j <= i) - 1

LineAndColumnOfCaret ==
    (0 <= calc.caret /\ calc.caret <= Len(calc.text))
        => /\ calc.line >= 1
           /\ calc.column >= 1
           /\ calc.line = 1 + Cardinality(NewlinesBefore(calc.text, calc.caret))
           /\ calc.column = calc.caret - LastNewlineIndex(calc.text, calc.caret)

CaretOnSecondLine ==
    /\ calc.text = <<"a", LF, "a">>
    /\ calc.caret = 3
    /\ calc.line = 2
    /\ calc.column = 2

\* C11: _sub_placeholder returns the template with every placeholder
\* occurrence replaced by its value and all other text unchanged, the six
\* replacements give the same result in every order, and a template without
\* a placeholder is returned unchanged.
Matching(s, filename, ln, col) ==
    {k \in 1..Len(Placeholders) : IsPrefix(Placeholders[k], s)}

\* One pass over the template: a placeholder found becomes its value, which
\* is not looked at again
RECURSIVE SubstitutedOnce(_, _, _, _)
SubstitutedOnce(s, filename, ln, col) ==
    IF s = <<>> THEN <<>>
    ELSE IF Matching(s, filename, ln, col) # {}
    THEN LET k == CHOOSE k \in Matching(s, filename, ln, col) : TRUE
         IN Values(filename, ln, col)[k]
                \o SubstitutedOnce(SubSeq(s, Len(Placeholders[k]) + 1, Len(s)),
                                   filename, ln, col)
    ELSE <<Head(s)>> \o SubstitutedOnce(Tail(s), filename, ln, col)

Orders == {o \in [1..6 -> 1..6] : \A i, j \in 1..6 : i # j => o[i] # o[j]}

RECURSIVE ReplacedInOrder(_, _, _, _)
ReplacedInOrder(s, order, values, n) ==
    IF n = 0 THEN s
    ELSE Replace(ReplacedInOrder(s, order, values, n - 1),
                 Placeholders[order[n]], values[order[n]])

HasPlaceholder(s) ==
    \E i \in 1..Len(s) : \E k \in 1..Len(Placeholders) :
        IsPrefix(Placeholders[k], SubSeq(s, i, Len(s)))

SubPlaceholderReplacesEachOnce ==
    LET values == Values(sub.filename, sub.line, sub.column)
    IN sub.done =>
       /\ sub.result = SubstitutedOnce(sub.template, sub.filename, sub.line, sub.column)
       /\ \A order \in Orders :
              ReplacedInOrder(sub.template, order, values, 6) = sub.result
       /\ ~HasPlaceholder(sub.template) => sub.result = sub.template

\* C12: a process that has terminated and delivered its callbacks has had
\* _cleanup run by them exactly once, whatever its outcome and the order of
\* its callbacks; no process has it run twice.
CleanupOncePerProcess ==
    \A p \in Procs :
        /\ procs[p].cleanups <= 1
        /\ Done(p) => procs[p].cleanups = 1

CrashedAndExitedCleanedUp ==
    /\ Len(procs) >= 2
    /\ \A p \in Procs : Done(p) /\ procs[p].cleanups = 1
    /\ \E p \in Procs : procs[p].status = "crashed"
    /\ \E p \in Procs : procs[p].status = "exited" /\ MsgRead \in {out.msgs[i] : i \in 1..Len(out.msgs)}

\* C13: a temp file the session has deleted belongs to no running editor: the
\* process edit started on it had terminated when a callback removed the file.
TempFileDeletedOnlyAfterExit ==
    \A p \in Procs :
        (procs[p].by = "edit" /\ procs[p].file \in deleted)
            => procs[p].status # "running"

TempFileDeletedAfterExit ==
    \E p \in Procs :
        /\ procs[p].by = "edit"
        /\ procs[p].file \in deleted
        /\ procs[p].status = "exited"
        /\ out.op = "on_proc_closed"
        /\ out.proc = p

\* C14: when the finished callback of a process that exited normally with
\* code 0 cannot read the file back, it reports the failure with message.error
\* and raises nothing, emits nothing, and runs _cleanup, after which the temp
\* file edit created for the process is gone.
ReadBackFails == ~(exists(_filename) /\ Decodable(fs[_filename]))

ReadFailureReportedAndCleanedUp ==
    [][\A p \in Procs :
          (on_proc_closed(p) /\ procs[p].status = "exited"
               /\ procs[p].exitcode = 0 /\ ReadBackFails)
              => /\ out'.raised = "none"
                 /\ MsgRead \in {out'.msgs[i] : i \in 1..Len(out'.msgs)}
                 /\ emitted' = emitted
                 /\ procs'[p].cleanups = procs[p].cleanups + 1
                 /\ procs[p].by = "edit" => procs[p].file \notin DOMAIN fs']_vars

\* C15: a process edit started that failed to start and whose error callback
\* has run has had _cleanup run once, its temp file is gone, and no
\* editing_finished was emitted for it.
FailedStartDeletesTempFile ==
    \A p \in Procs :
        (procs[p].by = "edit" /\ procs[p].status = "failed" /\ Done(p))
            => /\ procs[p].cleanups = 1
               /\ ~exists(procs[p].file)
               /\ EmissionsOf(p) = {}

\* C16: invoking _cleanup again once it has deleted the temp file raises
\* nothing and leaves _filename, _remove_file, _proc and the file system as
\* they were.
CleanupAgainChangesNothing ==
    [][(cleanup_again /\ _filename \in deleted /\ ~exists(_filename))
          => /\ out'.raised = "none"
             /\ UNCHANGED <<SessionState, fs, deleted>>]_vars

CleanedUpAgainAfterDelete ==
    /\ out.op = "_cleanup"
    /\ out.raised = "none"
    /\ _remove_file = PyTrue
    /\ _filename \in deleted
    /\ ~exists(_filename)

\* C17: every temp file created by edit whose cycle has ended without a crash
\* (the call failed and started no process, or the process started on the file
\* has terminated and delivered its callbacks) has been deleted.
TempFiles == {TempName(n) : n \in 1..ntemp}
CycleEnded(f) == \A p \in Procs : procs[p].file = f => Done(p)
CycleCrashed(f) == \E p \in Procs : procs[p].file = f /\ procs[p].status = "crashed"

NoTempFileLeaks ==
    \A f \in TempFiles : (CycleEnded(f) /\ ~CycleCrashed(f)) => ~exists(f)

\* C18: when the finished callback of a process reads a file back and emits
\* its text, the file is the one substituted into the arguments of that
\* process, and the exit status _cleanup consults is that of that process.
CallbackReadsFileOfItsProcess ==
    [][\A p \in Procs :
          (on_proc_closed(p) /\ emitted' # emitted)
              => /\ procs[p].args[1] = <<_filename>>
                 /\ exit_status(_proc) = exit_status(p)]_vars

\* C19: no callback fails the assertion of _cleanup: once a process has been
\* started _remove_file is True or False and _filename is set, and every
\* process was started on a file name.
CleanupAssertionNeverFails ==
    /\ out.raised # "AssertionError"
    /\ procs # <<>> => (_remove_file \in {PyTrue, PyFalse} /\ _filename # None)
    /\ \A p \in Procs : procs[p].file # None

CallbacksRanCleanup ==
    /\ out.op = "on_proc_error"
    /\ out.raised = "none"
    /\ \E p \in Procs : procs[p].by = "edit" /\ procs[p].cleanups = 1
    /\ \E p \in Procs : procs[p].by = "edit_file" /\ procs[p].cleanups = 1

====
